---- MODULE Spec2Model ----
(***************************************************************************)
(* The authentication / session bootstrap of kitab: the AuthProvider of    *)
(* contexts/AuthContext.tsx (session state, sign-in, sign-out, username    *)
(* reservation), the navigation guard of app/_layout.tsx, and the redirect *)
(* effects of the auth screens.  One app instance is modelled in full; a   *)
(* second signed-in session (another device) takes part only through the   *)
(* username creation it runs against the shared Firestore collections.     *)
(* Spec follows the session, the store and the routes; the username field  *)
(* of the profile form, with its debounce timer and its lookups, is        *)
(* followed in SpecForm under a session that stays as it is.               *)
(***************************************************************************)
EXTENDS Integers, Sequences, FiniteSets, TLC

VARIABLES
  authUser,          \* auth().currentUser of the app instance: a uid or NULL
  accounts,          \* uids the identity provider has already seen (isNewUser is false for them)
  initPending,       \* the first onAuthStateChanged event after mount is not delivered yet
  user,              \* AuthProvider state `user`
  loading,           \* AuthProvider state `loading`
  fetches,           \* onAuthStateChanged callbacks suspended at their users/<uid> get()
  signIn,            \* position of the running signInWithGoogle / signInWithApple call
  usersDoc,          \* Firestore collection users: uid -> document
  usernamesDoc,      \* Firestore collection usernames: lowercased name -> reserving uid
  calls,             \* per session: position of the running username submit
  segments,          \* useSegments(): the current route
  navKey,            \* rootNavigationState?.key is set
  showUsernameInput, \* LoginScreen state
  screenDirty,       \* the mounted screen's redirect effect has to run
  guardDirty,        \* AuthNavigationProvider's effect has to run
  redirects,         \* router.replace calls since the session last changed
  alert,             \* title of the Alert.alert dialog on screen, or NULL
  displayName,       \* ProfileCreationScreen state: the text of the username field
  usernameError,     \* ProfileCreationScreen state
  isCheckingUsername,\* ProfileCreationScreen state
  timer,             \* argument of the pending debounced call, or NULL
  lookups            \* debounced checks suspended at their checkUsernameExists

vars == <<authUser, accounts, initPending, user, loading, fetches, signIn,
          usersDoc, usernamesDoc, calls, segments, navKey,
          showUsernameInput, screenDirty, guardDirty, redirects, alert,
          displayName, usernameError, isCheckingUsername, timer, lookups>>

authVars  == <<authUser, accounts, initPending>>
storeVars == <<usersDoc, usernamesDoc>>
navVars   == <<segments, navKey, showUsernameInput>>
formVars  == <<displayName, usernameError, isCheckingUsername, timer, lookups>>

-----------------------------------------------------------------------------
(* Bounds of the model *)

\* in-flight profile fetches of one app instance
MaxFetches == 2
\* the redirect counter saturates here
MaxRedirects == 2
\* in-flight interactive username lookups of the form
MaxLookups == 2

-----------------------------------------------------------------------------
(* Values *)

\* JavaScript null / undefined
NULL == "null"

Uids == {"u1", "u2"}

\* the uid signed in on the other device
RemoteUid == "u2"

Sessions == {"local", "remote"}

\* what is typed into the username field
Typed == {"foo", "Foo"}

\* String.prototype.toLowerCase on what can be typed
toLowerCase(name) == IF name = "Foo" THEN "foo" ELSE name

LowerNames == {toLowerCase(t) : t \in Typed}

\* FirebaseAuthTypes.User.displayName as the provider reports it
ProviderDisplayName(uid) == IF uid = "u1" THEN "Ann" ELSE NULL

\* JavaScript truthiness of an optional string
Truthy(v) == v # NULL /\ v # ""

\* the FirebaseAuthTypes.User of an identity event; it has no avatar field
FirebaseUser(uid) ==
  [uid |-> uid, displayName |-> ProviderDisplayName(uid), username |-> NULL, avatar |-> NULL]

\* user === null
NoUser == [uid |-> NULL, displayName |-> NULL, username |-> NULL, avatar |-> NULL]

\* a users/<uid> document that does not exist
NoDoc == [exists |-> FALSE, displayName |-> NULL, username |-> NULL, avatar |-> NULL]

\* titles of the Alert.alert dialogs
SignInErrorTitle   == "Sign In Error"
UsernameTakenTitle == "Username taken"
ErrorTitle         == "Error"

Min(a, b) == IF a < b THEN a ELSE b

-----------------------------------------------------------------------------
(* Routes *)

Home            == <<"(tabs)">>
Login           == <<"auth", "login">>
ProfileCreation == <<"auth", "profile-creation">>
BookDetails     == <<"book-details", "[id]">>

Routes == {Home, Login, ProfileCreation, BookDetails}

\* no router.replace
NoNav == ""

\* segments.join('/')
RECURSIVE Join(_)
Join(segs) ==
  IF Len(segs) = 0 THEN ""
  ELSE IF Len(segs) = 1 THEN segs[1]
  ELSE segs[1] \o "/" \o Join(Tail(segs))

\* the segments expo-router reports after router.replace(path)
Resolve(path) ==
  CASE path = "/auth/login"            -> Login
    [] path = "/auth/profile-creation" -> ProfileCreation
    [] path = "/(tabs)"                -> Home

-----------------------------------------------------------------------------
(* Navigation guard and the screens' redirect effects *)

\* a test that takes either field for a complete profile
HasProfileEither(u) == Truthy(u.displayName) \/ Truthy(u.avatar)

\* user.displayName && user.avatar, the guard's test for a complete profile
HasProfile(u) == Truthy(u.displayName) /\ Truthy(u.avatar)

\* a guard that leaves an incomplete user anywhere in the auth group
GuardByAuthGroup(u, l, key, segs) ==
  IF l \/ ~key THEN NoNav
  ELSE LET inAuthGroup == Len(segs) > 0 /\ segs[1] = "auth"
       IN IF u = NoUser
            THEN IF ~inAuthGroup THEN "/auth/login" ELSE NoNav
          ELSE IF ~HasProfile(u)
            THEN IF ~inAuthGroup THEN "/auth/profile-creation" ELSE NoNav
          ELSE IF inAuthGroup THEN "/(tabs)" ELSE NoNav

\* a guard that sends an incomplete user to the login route
GuardToLogin(u, l, key, segs) ==
  IF l \/ ~key THEN NoNav
  ELSE LET inAuthGroup  == Len(segs) > 0 /\ segs[1] = "auth"
           currentRoute == Join(segs)
       IN IF u = NoUser
            THEN IF ~inAuthGroup THEN "/auth/login" ELSE NoNav
          ELSE IF ~HasProfile(u)
            THEN IF currentRoute # "auth/profile-creation"
                   THEN "/auth/login" ELSE NoNav
          ELSE IF inAuthGroup THEN "/(tabs)" ELSE NoNav

\* The effect of AuthNavigationProvider: the path it hands to router.replace,
\* or NoNav.  u, l, key, segs are user, loading, rootNavigationState?.key, segments.
AuthNavigationProvider(u, l, key, segs) ==
  IF l \/ ~key THEN NoNav
  ELSE LET inAuthGroup  == Len(segs) > 0 /\ segs[1] = "auth"
           currentRoute == Join(segs)
       IN IF u = NoUser
            THEN IF ~inAuthGroup THEN "/auth/login" ELSE NoNav
          ELSE IF ~HasProfile(u)
            THEN IF currentRoute # "auth/profile-creation"
                   THEN "/auth/profile-creation" ELSE NoNav
          ELSE IF inAuthGroup THEN "/(tabs)" ELSE NoNav

\* LoginScreen's effect, first branch: show the username form
LoginShowsUsernameInput(u) == u # NoUser /\ ~Truthy(u.username)

\* LoginScreen's effect, second branch: a user with a username goes home
LoginScreenEffect(u) ==
  IF u # NoUser /\ ~Truthy(u.username) THEN NoNav
  ELSE IF u # NoUser /\ Truthy(u.username) THEN "/(tabs)"
  ELSE NoNav

\* a ProfileCreationScreen effect that sends a user with a username home
ProfileCreationEffectByUsername(u, l) ==
  IF ~l
    THEN IF u = NoUser THEN "/auth/login"
         ELSE IF Truthy(u.username) THEN "/(tabs)"
         ELSE NoNav
    ELSE NoNav

\* ProfileCreationScreen's redirect effect
ProfileCreationEffect(u, l) ==
  IF ~l
    THEN IF u = NoUser THEN "/auth/login"
         ELSE IF HasProfile(u) THEN "/(tabs)"
         ELSE NoNav
    ELSE NoNav

\* the mounted screen has a redirect effect
HasScreenEffect(segs) == segs \in {Login, ProfileCreation}

\* the mounted screen's effect has a dependency among the changed values
\* (LoginScreen: [user]; ProfileCreationScreen: [user, authLoading, router])
ScreenDeps(segs, userChanged, loadingChanged) ==
  \/ segs = Login /\ userChanged
  \/ segs = ProfileCreation /\ (userChanged \/ loadingChanged)

\* the redirect effect of the screen mounted on route segs
ScreenEffect(segs, u, l) ==
  IF segs = Login THEN LoginScreenEffect(u)
  ELSE IF segs = ProfileCreation THEN ProfileCreationEffect(u, l)
  ELSE NoNav

\* One commit of React: every effect whose dependencies changed runs, the
\* screen's (child) before the guard's (parent); the last router.replace wins.
RunEffects ==
  /\ screenDirty \/ guardDirty
  /\ LET screenNav == IF ~screenDirty THEN NoNav
                      ELSE IF segments = Login THEN LoginScreenEffect(user)
                      ELSE IF segments = ProfileCreation
                             THEN ProfileCreationEffect(user, loading)
                      ELSE NoNav
         guardNav  == IF guardDirty
                        THEN AuthNavigationProvider(user, loading, navKey, segments)
                        ELSE NoNav
         navs      == SelectSeq(<<screenNav, guardNav>>, LAMBDA p : p # NoNav)
         target    == IF navs = <<>> THEN segments ELSE Resolve(navs[Len(navs)])
         show      == \/ showUsernameInput
                      \/ segments = Login /\ screenDirty /\ LoginShowsUsernameInput(user)
     IN /\ segments' = target
        /\ showUsernameInput' = (target = Login /\ segments = Login /\ show)
        /\ screenDirty' = (target # segments /\ HasScreenEffect(target))
        /\ guardDirty' = (target # segments)
        /\ redirects' = Min(redirects + Len(navs), MaxRedirects)
  /\ UNCHANGED <<authVars, user, loading, fetches, signIn, storeVars, calls, navKey>>
  /\ UNCHANGED <<alert, formVars>>

\* rootNavigationState?.key becomes available
NavMount ==
  /\ ~navKey
  /\ navKey' = TRUE
  /\ guardDirty' = TRUE
  /\ UNCHANGED <<authVars, user, loading, fetches, signIn, storeVars, calls,
                 segments, showUsernameInput, screenDirty, redirects>>
  /\ UNCHANGED <<alert, formVars>>

-----------------------------------------------------------------------------
(* Session manager: AuthProvider *)

\* setUser(u2); setLoading(l2) in one handler.  userSet: setUser was handed a
\* fresh object, which re-runs the effects that depend on user even when the
\* fields are the same.
Publish(u2, l2, userSet) ==
  LET userChanged    == userSet \/ u2 # user
      loadingChanged == l2 # loading
  IN /\ user' = u2
     /\ loading' = l2
     /\ screenDirty' = (screenDirty \/ ScreenDeps(segments, userChanged, loadingChanged))
     /\ guardDirty' = (guardDirty \/ userChanged \/ loadingChanged)
     /\ redirects' = IF u2 # user \/ l2 # loading THEN 0 ELSE redirects

\* the callback of onAuthStateChanged up to its await: a non-null identity
\* starts the get() of users/<uid>
StartFetch(uid) == Append(fetches, uid)

\* userData?.username of a users document
DocUsername(doc) == IF doc.exists THEN doc.username ELSE NULL

\* a callback that hands null to setUser when the get() threw
FetchedUserOrNull(uid, failed, doc) ==
  IF ~failed
    THEN [FirebaseUser(uid) EXCEPT !.username = DocUsername(doc)]
    ELSE NoUser

\* what the callback hands to setUser once the get() has settled: the
\* identity merged with the stored username, or the bare identity when the
\* get() threw
FetchedUser(uid, failed, doc) ==
  IF ~failed
    THEN [FirebaseUser(uid) EXCEPT !.username = DocUsername(doc)]
    ELSE FirebaseUser(uid)

RemoveAt(seq, i) == SubSeq(seq, 1, i - 1) \o SubSeq(seq, i + 1, Len(seq))

\* first onAuthStateChanged event after mount: the persisted identity
AuthInit ==
  /\ initPending
  /\ initPending' = FALSE
  /\ IF authUser = NULL
       THEN /\ Publish(NoUser, FALSE, FALSE)
            /\ UNCHANGED fetches
       ELSE /\ fetches' = StartFetch(authUser)
            /\ UNCHANGED <<user, loading, screenDirty, guardDirty, redirects>>
  /\ UNCHANGED <<authUser, accounts, signIn, storeVars, calls, navVars>>
  /\ UNCHANGED <<alert, formVars>>

\* a callback that enters loading again when it resumes
FetchDeliverLoading(i, failed) ==
  /\ Publish(FetchedUser(fetches[i], failed, usersDoc[fetches[i]]), TRUE, TRUE)
  /\ fetches' = RemoveAt(fetches, i)
  /\ UNCHANGED <<authVars, signIn, storeVars, calls, navVars, alert, formVars>>

\* a suspended callback resumes with the document as the store holds it (or
\* with the error of a failed get()): setUser(...), setLoading(false).
\* Callbacks resume in any order.
FetchDeliver(i, failed) ==
  /\ Publish(FetchedUser(fetches[i], failed, usersDoc[fetches[i]]), FALSE, TRUE)
  /\ fetches' = RemoveAt(fetches, i)
  /\ UNCHANGED <<authVars, signIn, storeVars, calls, navVars>>
  /\ UNCHANGED <<alert, formVars>>

\* signOut(): auth().signOut() succeeds and the null identity event is delivered
SignOut ==
  /\ ~initPending
  /\ authUser # NULL
  /\ authUser' = NULL
  /\ Publish(NoUser, FALSE, FALSE)
  /\ UNCHANGED <<accounts, initPending, fetches, signIn, storeVars, calls, navVars>>
  /\ UNCHANGED <<alert, formVars>>

\* a failed sign-out that drops the user all the same
SignOutFailClearsUser ==
  /\ ~initPending
  /\ authUser # NULL
  /\ alert' = ErrorTitle
  /\ Publish(NoUser, FALSE, FALSE)
  /\ UNCHANGED <<authVars, fetches, signIn, storeVars, calls, navVars, formVars>>

\* signOut(): auth().signOut() rejects: catch, Alert; no identity event
SignOutFail ==
  /\ ~initPending
  /\ authUser # NULL
  /\ alert' = ErrorTitle
  /\ UNCHANGED <<authVars, user, loading, fetches, signIn, storeVars, calls, navVars,
                 screenDirty, guardDirty, redirects, formVars>>

-----------------------------------------------------------------------------
(* signInWithGoogle / signInWithApple *)

IdleSignIn == [pc |-> "idle", uid |-> NULL]

\* how the provider round trip or the credential exchange can fail
SignInFailures == {"cancelled", "in_progress", "error"}

\* the sign-in buttons of LoginScreen are on screen
LoginButtonsShown ==
  /\ segments = Login
  /\ ~loading
  /\ ~showUsernameInput
  /\ ~screenDirty /\ ~guardDirty

\* the document a sign-in function writes for a new user (set without merge)
NewUserDoc(uid) ==
  [exists |-> TRUE, displayName |-> ProviderDisplayName(uid), username |-> NULL,
   avatar |-> NULL]

\* a sign-in button is pressed: setLoading(true), then the provider round trip
SignInStart ==
  /\ ~initPending
  /\ LoginButtonsShown
  /\ signIn.pc = "idle"
  /\ signIn' = [pc |-> "provider", uid |-> NULL]
  /\ Publish(user, TRUE, FALSE)
  /\ UNCHANGED <<authVars, fetches, storeVars, calls, navVars>>
  /\ alert' = NULL
  /\ UNCHANGED formVars

\* the provider round trip or the credential exchange throws with cause: the
\* catch does not read the cause; Alert, finally setLoading(false)
SignInFail(cause) ==
  /\ signIn.pc = "provider"
  /\ signIn' = IdleSignIn
  /\ Publish(user, FALSE, FALSE)
  /\ UNCHANGED <<authVars, fetches, storeVars, calls, navVars>>
  /\ alert' = SignInErrorTitle
  /\ UNCHANGED formVars

\* signInWithCredential resolves for uid.  An identity that differs from the
\* current one fires onAuthStateChanged.  A returning user falls through to
\* finally; a new user goes on to write the users document.
SignInCredential(uid) ==
  /\ signIn.pc = "provider"
  /\ authUser' = uid
  /\ accounts' = accounts \cup {uid}
  /\ IF uid # authUser
       THEN /\ Len(fetches) < MaxFetches
            /\ fetches' = StartFetch(uid)
       ELSE UNCHANGED fetches
  /\ IF uid \in accounts
       THEN /\ signIn' = IdleSignIn
            /\ Publish(user, FALSE, FALSE)
       ELSE /\ signIn' = [pc |-> "newUser", uid |-> uid]
            /\ UNCHANGED <<user, loading, screenDirty, guardDirty, redirects>>
  /\ UNCHANGED <<initPending, storeVars, calls, navVars>>
  /\ UNCHANGED <<alert, formVars>>

\* the new user's document is written; finally setLoading(false)
SignInNewUserDoc ==
  /\ signIn.pc = "newUser"
  /\ usersDoc' = [usersDoc EXCEPT ![signIn.uid] = NewUserDoc(signIn.uid)]
  /\ signIn' = IdleSignIn
  /\ Publish(user, FALSE, FALSE)
  /\ UNCHANGED <<authVars, fetches, usernamesDoc, calls, navVars>>
  /\ UNCHANGED <<alert, formVars>>

\* the write of the new user's document fails: catch, Alert, finally
SignInNewUserDocFail ==
  /\ signIn.pc = "newUser"
  /\ signIn' = IdleSignIn
  /\ Publish(user, FALSE, FALSE)
  /\ UNCHANGED <<authVars, fetches, storeVars, calls, navVars>>
  /\ alert' = SignInErrorTitle
  /\ UNCHANGED formVars

-----------------------------------------------------------------------------
(* checkUsernameExists / createUsername and the submit of the profile form *)
(*                                                                         *)
(* ProfileCreationScreen takes the context's creation function under the   *)
(* name createProfile; the AuthProvider provides createUsername(username), *)
(* which is the function the submit enters here (the avatar argument has   *)
(* no parameter to land in).  The username form of LoginScreen, the other  *)
(* caller, is never on screen: the guard replaces the route in the commit  *)
(* in which the form would appear (see UsernameFormNeverShown).            *)

IdleCall == [pc |-> "idle", name |-> NULL, uid |-> NULL, result |-> NULL]

\* handleUsernameChange: text.toLowerCase().replace(/[^a-z0-9_]/g, '')
FormatUsername(text) == toLowerCase(text)

\* checkUsernameExists: a failed lookup is caught and reported as false
checkUsernameExists(name, failed) ==
  IF failed THEN FALSE ELSE usernamesDoc[toLowerCase(name)] # NULL

\* batch.set(userRef, {username}, {merge: true})
BatchSetUser(uid, name) ==
  [usersDoc EXCEPT ![uid] = [@ EXCEPT !.exists = TRUE, !.username = name]]

\* batch.set(usernameRef, {uid})
BatchSetUsername(uid, name) ==
  [usernamesDoc EXCEPT ![toLowerCase(name)] = uid]

\* setUser(currentUser => currentUser ? {...currentUser, username} : currentUser)
WithUsername(currentUser, name) ==
  IF currentUser # NoUser THEN [currentUser EXCEPT !.username = name] ELSE currentUser

\* the form of ProfileCreationScreen is on screen
ProfileFormShown ==
  /\ segments = ProfileCreation
  /\ ~(loading \/ user = NoUser \/ HasProfile(user))
  /\ ~screenDirty /\ ~guardDirty

\* handleSubmit up to its first await, with the formatted input and an avatar
\* chosen.  The creation function, and with it user, is the one of the render
\* in which the button was pressed; the button is disabled while isSubmitting.
HandleSubmit(text) ==
  /\ ProfileFormShown
  /\ calls["local"].pc = "idle"
  /\ calls' = [calls EXCEPT !["local"] =
       [pc |-> "precheck", name |-> FormatUsername(text), uid |-> user.uid, result |-> NULL]]
  /\ UNCHANGED <<authVars, user, loading, fetches, signIn, storeVars, navVars,
                 screenDirty, guardDirty, redirects>>
  /\ alert' = NULL
  /\ UNCHANGED formVars

\* the same submit on the other device, signed in as RemoteUid
RemoteSubmit(text) ==
  /\ calls["remote"].pc = "idle"
  /\ calls' = [calls EXCEPT !["remote"] =
       [pc |-> "precheck", name |-> FormatUsername(text), uid |-> RemoteUid, result |-> NULL]]
  /\ UNCHANGED <<authVars, user, loading, fetches, signIn, storeVars, navVars,
                 screenDirty, guardDirty, redirects>>
  /\ UNCHANGED <<alert, formVars>>

\* createUsername's entry: if (!user) return false
CreateUsernameEnter(call) ==
  IF call.uid = NULL
    THEN [call EXCEPT !.pc = "idle", !.result = "false"]
    ELSE [call EXCEPT !.pc = "check"]

\* the submit's final checkUsernameExists settles: a taken name ends the
\* submit, a free one enters the creation function
SubmitPrecheck(s, failed) ==
  /\ calls[s].pc = "precheck"
  /\ calls' = [calls EXCEPT ![s] =
       IF checkUsernameExists(calls[s].name, failed)
         THEN [@ EXCEPT !.pc = "idle", !.result = "taken"]
         ELSE CreateUsernameEnter(@)]
  /\ UNCHANGED <<authVars, user, loading, fetches, signIn, storeVars, navVars,
                 screenDirty, guardDirty, redirects>>
  /\ UNCHANGED <<alert, formVars>>

\* createUsername's checkUsernameExists settles: a taken name returns false
CreateUsernameCheck(s, failed) ==
  /\ calls[s].pc = "check"
  /\ calls' = [calls EXCEPT ![s] =
       IF checkUsernameExists(calls[s].name, failed)
         THEN [@ EXCEPT !.pc = "idle", !.result = "false"]
         ELSE [@ EXCEPT !.pc = "commit"]]
  /\ UNCHANGED <<authVars, user, loading, fetches, signIn, storeVars, navVars,
                 screenDirty, guardDirty, redirects>>
  /\ alert' = IF s = "local" /\ checkUsernameExists(calls[s].name, failed)
                 THEN UsernameTakenTitle ELSE alert
  /\ UNCHANGED formVars

\* batch.commit() succeeds: both documents are written, the local user gets
\* the username, createUsername returns true and the submit replaces the
\* route by /(tabs)
CreateUsernameCommit(s) ==
  /\ calls[s].pc = "commit"
  /\ usersDoc' = BatchSetUser(calls[s].uid, calls[s].name)
  /\ usernamesDoc' = BatchSetUsername(calls[s].uid, calls[s].name)
  /\ calls' = [calls EXCEPT ![s] = [@ EXCEPT !.pc = "idle", !.result = "true"]]
  /\ IF s = "local"
       THEN LET u2 == WithUsername(user, calls[s].name)
            IN /\ user' = u2
               /\ segments' = Home
               /\ showUsernameInput' = FALSE
               /\ screenDirty' = FALSE
               /\ guardDirty' = (guardDirty \/ u2 # user \/ segments # Home)
               /\ redirects' = Min((IF u2 # user THEN 0 ELSE redirects) + 1, MaxRedirects)
               /\ UNCHANGED <<loading, navKey>>
       ELSE UNCHANGED <<user, loading, navVars, screenDirty, guardDirty, redirects>>
  /\ UNCHANGED <<authVars, fetches, signIn>>
  /\ UNCHANGED <<alert, formVars>>

\* a failed commit that gives the local user the username all the same
CreateUsernameCommitFailOptimistic(s) ==
  /\ calls[s].pc = "commit"
  /\ calls' = [calls EXCEPT ![s] = [@ EXCEPT !.pc = "idle", !.result = "false"]]
  /\ user' = IF s = "local" THEN WithUsername(user, calls[s].name) ELSE user
  /\ alert' = IF s = "local" THEN ErrorTitle ELSE alert
  /\ UNCHANGED <<authVars, loading, fetches, signIn, storeVars, navVars,
                 screenDirty, guardDirty, redirects, formVars>>

\* batch.commit() fails: catch, Alert, return false
CreateUsernameCommitFail(s) ==
  /\ calls[s].pc = "commit"
  /\ calls' = [calls EXCEPT ![s] = [@ EXCEPT !.pc = "idle", !.result = "false"]]
  /\ UNCHANGED <<authVars, user, loading, fetches, signIn, storeVars, navVars,
                 screenDirty, guardDirty, redirects>>
  /\ alert' = IF s = "local" THEN ErrorTitle ELSE alert
  /\ UNCHANGED formVars

-----------------------------------------------------------------------------
(* The app instance *)

\* state of a freshly mounted ProfileCreationScreen
FormMounted ==
  /\ displayName = ""
  /\ usernameError = ""
  /\ isCheckingUsername = FALSE
  /\ timer = NULL
  /\ lookups = <<>>

\* state of a freshly mounted app: useState(null), useState(true), index route
Mounted ==
  /\ initPending = TRUE
  /\ user = NoUser
  /\ loading = TRUE
  /\ fetches = <<>>
  /\ signIn = IdleSignIn
  /\ segments = Home
  /\ navKey = FALSE
  /\ showUsernameInput = FALSE
  /\ screenDirty = FALSE
  /\ guardDirty = TRUE
  /\ redirects = 0
  /\ alert = NULL
  /\ FormMounted

Init ==
  /\ Mounted
  /\ authUser = NULL
  /\ accounts = {}
  /\ usersDoc = [u \in Uids |-> NoDoc]
  /\ usernamesDoc = [n \in LowerNames |-> NULL]
  /\ calls = [s \in Sessions |-> IdleCall]

\* the app is closed and started again: the identity provider keeps the
\* signed-in identity, every state of the components starts over
Restart ==
  /\ ~initPending
  /\ initPending' = TRUE
  /\ user' = NoUser
  /\ loading' = TRUE
  /\ fetches' = <<>>
  /\ signIn' = IdleSignIn
  /\ segments' = Home
  /\ navKey' = FALSE
  /\ showUsernameInput' = FALSE
  /\ screenDirty' = FALSE
  /\ guardDirty' = TRUE
  /\ redirects' = 0
  /\ calls' = [calls EXCEPT !["local"] = IdleCall]
  /\ UNCHANGED <<authUser, accounts, storeVars>>
  /\ alert' = NULL
  /\ UNCHANGED formVars

Next ==
  \/ AuthInit
  \/ NavMount
  \/ RunEffects
  \/ \E i \in 1..Len(fetches), failed \in BOOLEAN : FetchDeliver(i, failed)
  \/ SignOut
  \/ SignOutFail
  \/ SignInStart
  \/ \E cause \in SignInFailures : SignInFail(cause)
  \/ \E uid \in Uids : SignInCredential(uid)
  \/ SignInNewUserDoc
  \/ SignInNewUserDocFail
  \/ \E text \in Typed : HandleSubmit(text)
  \/ \E failed \in BOOLEAN : SubmitPrecheck("local", failed)
  \/ \E failed \in BOOLEAN : CreateUsernameCheck("local", failed)
  \/ CreateUsernameCommit("local")
  \/ CreateUsernameCommitFail("local")
  \/ Restart

Spec == Init /\ [][Next]_vars

-----------------------------------------------------------------------------
(* Two sessions reserving usernames: the app instance and the other device *)

NextReserve ==
  \/ AuthInit
  \/ NavMount
  \/ RunEffects
  \/ \E i \in 1..Len(fetches) : FetchDeliver(i, FALSE)
  \/ SignInStart
  \/ \E uid \in Uids : SignInCredential(uid)
  \/ SignInNewUserDoc
  \/ \E text \in Typed : HandleSubmit(text)
  \/ \E text \in Typed : RemoteSubmit(text)
  \/ \E s \in Sessions, failed \in BOOLEAN : SubmitPrecheck(s, failed)
  \/ \E s \in Sessions, failed \in BOOLEAN : CreateUsernameCheck(s, failed)
  \/ \E s \in Sessions : CreateUsernameCommit(s)
  \/ \E s \in Sessions : CreateUsernameCommitFail(s)

SpecReserve == Init /\ [][NextReserve]_vars

-----------------------------------------------------------------------------
(* The guard alone, over every user, loading flag and route *)

\* avatar ids of AVATARS
AvatarIds == {"explorer", "thinker"}

\* the values user can take as far as the guard reads it
GuardUsers ==
  {NoUser} \cup
  [uid : Uids, displayName : {NULL, "", "Ann"}, username : {NULL, "foo"},
   avatar : {NULL} \cup AvatarIds]

GuardInit ==
  /\ user \in GuardUsers
  /\ loading \in BOOLEAN
  /\ navKey \in BOOLEAN
  /\ segments \in Routes
  /\ authUser = NULL
  /\ accounts = {}
  /\ initPending = FALSE
  /\ fetches = <<>>
  /\ signIn = IdleSignIn
  /\ usersDoc = [u \in Uids |-> NoDoc]
  /\ usernamesDoc = [n \in LowerNames |-> NULL]
  /\ calls = [s \in Sessions |-> IdleCall]
  /\ showUsernameInput = FALSE
  /\ screenDirty = FALSE
  /\ guardDirty = TRUE
  /\ redirects = 0
  /\ alert = NULL
  /\ FormMounted

\* the guard's effect runs and its router.replace is applied
GuardStep ==
  LET nav == AuthNavigationProvider(user, loading, navKey, segments)
  IN /\ nav # NoNav
     /\ segments' = Resolve(nav)
     /\ redirects' = Min(redirects + 1, MaxRedirects)
     /\ UNCHANGED <<authVars, user, loading, fetches, signIn, storeVars, calls, navKey,
                    showUsernameInput, screenDirty, guardDirty>>
     /\ UNCHANGED <<alert, formVars>>

NextGuard == GuardStep

SpecGuard == GuardInit /\ [][NextGuard]_vars

-----------------------------------------------------------------------------
(* The username field of ProfileCreationScreen: keystrokes, the debounced   *)
(* check and its lookups, for a screen that stays mounted under one session *)

\* name.length >= 3
MinUsernameLength == 3

\* what the field can hold after a keystroke, before formatting
FieldTexts == {"", "fo", "foo", "Foo", "fox"}

\* the names a lookup can be for
FormNames == {n \in {FormatUsername(t) : t \in FieldTexts} : Len(n) >= MinUsernameLength}

TooShortMessage == "Username must be at least 3 characters."
TakenMessage    == "Username is already taken."

\* handleUsernameChange(text): format, store, clear the error, then either
\* the length error or a call of the debounced check.  lodash's debounce
\* restarts its timer on every call and keeps the last argument; a keystroke
\* that does not call it leaves a pending timer as it is.
handleUsernameChange(text) ==
  LET formattedUsername == FormatUsername(text)
  IN /\ ProfileFormShown
     /\ displayName' = formattedUsername
     /\ usernameError' =
          IF Len(formattedUsername) < MinUsernameLength /\ Len(formattedUsername) > 0
            THEN TooShortMessage ELSE ""
     /\ timer' = IF Len(formattedUsername) >= MinUsernameLength
                   THEN formattedUsername ELSE timer
     /\ UNCHANGED <<authVars, user, loading, fetches, signIn, storeVars, calls, navVars,
                    screenDirty, guardDirty, redirects, alert, isCheckingUsername, lookups>>

\* the debounce delay has passed since the last call: the debounced function
\* runs up to its await
TimerFire ==
  /\ timer # NULL
  /\ Len(lookups) < MaxLookups
  /\ timer' = NULL
  /\ IF Len(timer) >= MinUsernameLength
       THEN /\ isCheckingUsername' = TRUE
            /\ usernameError' = ""
            /\ lookups' = Append(lookups, timer)
       ELSE UNCHANGED <<isCheckingUsername, usernameError, lookups>>
  /\ UNCHANGED <<authVars, user, loading, fetches, signIn, storeVars, calls, navVars,
                 screenDirty, guardDirty, redirects, alert, displayName>>

\* a lookup settles and the debounced function resumes: checkUsernameExists
\* has turned a failed get() into false
LookupDeliver(i, failed) ==
  /\ usernameError' = IF checkUsernameExists(lookups[i], failed) THEN TakenMessage ELSE ""
  /\ isCheckingUsername' = FALSE
  /\ lookups' = RemoveAt(lookups, i)
  /\ UNCHANGED <<authVars, user, loading, fetches, signIn, storeVars, calls, navVars,
                 screenDirty, guardDirty, redirects, alert, displayName, timer>>

\* a signed-in user without profile is on the form; any of the names may be
\* reserved already
FormInit ==
  /\ authUser = "u1"
  /\ accounts = {"u1"}
  /\ initPending = FALSE
  /\ user = FirebaseUser("u1")
  /\ loading = FALSE
  /\ fetches = <<>>
  /\ signIn = IdleSignIn
  /\ usersDoc = [u \in Uids |-> IF u = "u1" THEN NewUserDoc(u) ELSE NoDoc]
  /\ usernamesDoc \in [FormNames -> {NULL, RemoteUid}]
  /\ calls = [s \in Sessions |-> IdleCall]
  /\ segments = ProfileCreation
  /\ navKey = TRUE
  /\ showUsernameInput = FALSE
  /\ screenDirty = FALSE
  /\ guardDirty = FALSE
  /\ redirects = 0
  /\ alert = NULL
  /\ FormMounted

NextForm ==
  \/ \E text \in FieldTexts : handleUsernameChange(text)
  \/ TimerFire
  \/ \E i \in 1..Len(lookups), failed \in BOOLEAN : LookupDeliver(i, failed)

SpecForm == FormInit /\ [][NextForm]_vars

-----------------------------------------------------------------------------
(* A returning user: the store already holds a profile with username and   *)
(* avatar for u1, and nothing fails                                         *)

\* a users document with both fields of a finished profile
CompleteDoc(uid, name, avatarId) ==
  [exists |-> TRUE, displayName |-> ProviderDisplayName(uid), username |-> name,
   avatar |-> avatarId]

ReturningInit ==
  /\ Mounted
  /\ authUser \in {NULL, "u1"}
  /\ accounts = {"u1"}
  /\ \E avatarId \in {"explorer", "thinker"} :
       usersDoc = [u \in Uids |-> IF u = "u1" THEN CompleteDoc(u, "foo", avatarId) ELSE NoDoc]
  /\ usernamesDoc = [n \in LowerNames |-> "u1"]
  /\ calls = [s \in Sessions |-> IdleCall]

NextReturning ==
  \/ AuthInit
  \/ NavMount
  \/ RunEffects
  \/ \E i \in 1..Len(fetches) : FetchDeliver(i, FALSE)
  \/ SignInStart
  \/ SignInCredential("u1")
  \/ \E text \in Typed : HandleSubmit(text)
  \/ SubmitPrecheck("local", FALSE)
  \/ SignOut
  \/ Restart

SpecReturning == ReturningInit /\ [][NextReturning]_vars

-----------------------------------------------------------------------------
(* The first sign-in of a user: nothing fails, nobody signs out, and every  *)
(* pending step (effects, callbacks, store round trips) and every step of   *)
(* the user (pressing the button, submitting the form) is taken in the end  *)

NextFirst ==
  \/ AuthInit
  \/ NavMount
  \/ RunEffects
  \/ \E i \in 1..Len(fetches) : FetchDeliver(i, FALSE)
  \/ SignInStart
  \/ \E uid \in Uids : SignInCredential(uid)
  \/ SignInNewUserDoc
  \/ \E text \in Typed : HandleSubmit(text)
  \/ SubmitPrecheck("local", FALSE)
  \/ CreateUsernameCheck("local", FALSE)
  \/ CreateUsernameCommit("local")

FairFirst ==
  /\ WF_vars(AuthInit)
  /\ WF_vars(NavMount)
  /\ WF_vars(RunEffects)
  /\ WF_vars(\E i \in 1..Len(fetches) : FetchDeliver(i, FALSE))
  /\ WF_vars(SignInStart)
  /\ WF_vars(\E uid \in Uids : SignInCredential(uid))
  /\ WF_vars(SignInNewUserDoc)
  /\ WF_vars(\E text \in Typed : HandleSubmit(text))
  /\ WF_vars(SubmitPrecheck("local", FALSE))
  /\ WF_vars(CreateUsernameCheck("local", FALSE))
  /\ WF_vars(CreateUsernameCommit("local"))

SpecFirst == Init /\ [][NextFirst]_vars /\ FairFirst

-----------------------------------------------------------------------------
(* The guard together with the screens' effects, for a session that stays  *)
(* as it is: every user, loading flag and starting route, all effects       *)
(* running on mount and React running every pending commit                  *)

RoutesInit ==
  /\ user \in GuardUsers
  /\ loading \in BOOLEAN
  /\ segments \in Routes
  /\ navKey = TRUE
  /\ screenDirty = HasScreenEffect(segments)
  /\ guardDirty = TRUE
  /\ authUser = NULL
  /\ accounts = {}
  /\ initPending = FALSE
  /\ fetches = <<>>
  /\ signIn = IdleSignIn
  /\ usersDoc = [u \in Uids |-> NoDoc]
  /\ usernamesDoc = [n \in LowerNames |-> NULL]
  /\ calls = [s \in Sessions |-> IdleCall]
  /\ showUsernameInput = FALSE
  /\ redirects = 0
  /\ alert = NULL
  /\ FormMounted

NextRoutes == RunEffects

SpecRoutes == RoutesInit /\ [][NextRoutes]_vars /\ WF_vars(NextRoutes)

-----------------------------------------------------------------------------
(* The session of the design, read off the AuthProvider state the way the  *)
(* guard reads it                                                          *)

SessionOf(u, l) ==
  IF l THEN "loading"
  ELSE IF u = NoUser THEN "signed_out"
  ELSE IF HasProfile(u) THEN "signed_in_complete"
  ELSE "signed_in_incomplete"

\* a stored profile with both the username and the avatar
ProfileComplete(doc) == doc.exists /\ Truthy(doc.username) /\ Truthy(doc.avatar)

\* the username form of LoginScreen never gets on screen
UsernameFormNeverShown == ~showUsernameInput

-----------------------------------------------------------------------------
(* Claims *)

\* C1: whenever a non-null user is published while an identity is signed in,
\* its uid is the uid of the most recent identity event; a profile fetch
\* started for an older identity never publishes that older identity.
C1_StaleIdentityNeverPublished ==
  [][(user' # user /\ user' # NoUser /\ authUser' # NULL) => user'.uid = authUser']_vars

\* C2: once the null identity event has been processed the user is null and
\* stays null until a new non-null identity event arrives, whatever pending
\* fetch resolves or fails in between.
C2_SignedOutStaysSignedOut ==
  (authUser = NULL /\ ~initPending) => user = NoUser

\* C3: two sessions signed in with different uids never both get success
\* from the creation of the same normalized username.
C3_NeverBothSucceed ==
  ~ /\ calls["local"].result = "true"
    /\ calls["remote"].result = "true"
    /\ toLowerCase(calls["local"].name) = toLowerCase(calls["remote"].name)
    /\ calls["local"].uid # calls["remote"].uid

\* C4: a signed-in user whose stored profile lacks the username or the avatar
\* (or does not exist) is never treated as signed_in_complete.
C4_PartialProfileNeverComplete ==
  (user # NoUser /\ ~ProfileComplete(usersDoc[user.uid]))
    => SessionOf(user, loading) # "signed_in_complete"

\* C4 witness: a user whose stored profile has the username and no avatar has
\* been published and the guard holds them on the profile-creation route.
C4_Witness ==
  /\ user # NoUser
  /\ Truthy(user.username)
  /\ usersDoc[user.uid].exists
  /\ Truthy(usersDoc[user.uid].username)
  /\ ~Truthy(usersDoc[user.uid].avatar)
  /\ SessionOf(user, loading) = "signed_in_incomplete"
  /\ segments = ProfileCreation
  /\ ~guardDirty

\* the decision table of the design: session and route to redirect
GuardTable(session, segs) ==
  LET inAuth == segs[1] = "auth"
  IN CASE session = "loading"              -> NoNav
       [] session = "signed_out"           -> IF inAuth THEN NoNav ELSE "/auth/login"
       [] session = "signed_in_incomplete" -> IF segs = ProfileCreation THEN NoNav
                                              ELSE "/auth/profile-creation"
       [] session = "signed_in_complete"   -> IF inAuth THEN "/(tabs)" ELSE NoNav

\* C5: with the root navigation mounted, the guard's decision is the one of
\* the table for every session and route.
C5_GuardFollowsTable ==
  navKey => AuthNavigationProvider(user, loading, navKey, segments)
              = GuardTable(SessionOf(user, loading), segments)

\* C5 witness: the guard has sent a user with a complete profile from the
\* auth group to the home route.
C5_Witness ==
  /\ redirects = 1
  /\ SessionOf(user, loading) = "signed_in_complete"
  /\ segments = Home

\* C6: after the guard's redirect has been applied, the guard decides no
\* further redirect for the same session.
C6_GuardIdempotent ==
  [][GuardStep => AuthNavigationProvider(user', loading', navKey', segments') = NoNav]_vars

\* C6 witness: an incomplete session has been sent to the profile-creation
\* route and the guard now decides nothing.
C6_Witness ==
  /\ redirects = 1
  /\ SessionOf(user, loading) = "signed_in_incomplete"
  /\ segments = ProfileCreation
  /\ AuthNavigationProvider(user, loading, navKey, segments) = NoNav

\* the user the guard reads is the one of the latest identity event
UserOfLatestIdentity ==
  IF authUser = NULL THEN user = NoUser ELSE user # NoUser /\ user.uid = authUser

\* C7: the guard issues a redirect only when loading is over, the first
\* identity event has been processed and user is the result of the latest
\* identity event.
C7_GuardReadsLatestIdentity ==
  [][(RunEffects /\ guardDirty
        /\ AuthNavigationProvider(user, loading, navKey, segments) # NoNav)
      => (~loading /\ ~initPending /\ UserOfLatestIdentity)]_vars

\* C8: between two changes of the session at most one router.replace is
\* performed.
C8_AtMostOneRedirect == redirects <= 1

\* C9: a callback whose get() failed publishes the bare identity it was
\* started for, as signed_in_incomplete, and clears loading.
C9_FetchErrorPublishesIncomplete ==
  [][\A i \in 1..Len(fetches) :
       FetchDeliver(i, TRUE) =>
         /\ user' = FirebaseUser(fetches[i])
         /\ ~loading'
         /\ SessionOf(user', loading') = "signed_in_incomplete"]_vars

\* C9 witness: the stored document has a username and a callback whose get()
\* failed has published the user without it.
C9_Witness ==
  /\ user # NoUser
  /\ ~loading
  /\ user.username = NULL
  /\ Truthy(usersDoc[user.uid].username)
  /\ SessionOf(user, loading) = "signed_in_incomplete"

\* C10: the creation function goes on to its check and write only when the
\* session is signed_in_incomplete at the time it is called.
C10_CreationOnlyWhenIncomplete ==
  [][(calls["local"].pc = "precheck" /\ calls'["local"].pc = "check")
      => SessionOf(user, loading) = "signed_in_incomplete"]_vars

\* C11: when the creation ends in failure (the name is taken at its check, or
\* batch.commit() fails) the step reports false to the caller, raises an
\* alert and changes neither user, loading nor the store.
C11_FailedWriteKeepsSession ==
  [][(CreateUsernameCommitFail("local")
        \/ (CreateUsernameCheck("local", FALSE) /\ calls'["local"].pc = "idle"))
      => /\ calls'["local"].result = "false"
         /\ alert' \in {UsernameTakenTitle, ErrorTitle}
         /\ user' = user
         /\ loading' = loading
         /\ storeVars' = storeVars]_vars

\* C11 witness: batch.commit() has failed for a free name; the user is still
\* signed in without username and nothing is stored.
C11_Witness ==
  /\ calls["local"].pc = "idle"
  /\ calls["local"].result = "false"
  /\ alert = ErrorTitle
  /\ user # NoUser
  /\ user.uid = calls["local"].uid
  /\ user.username = NULL
  /\ SessionOf(user, loading) = "signed_in_incomplete"
  /\ usernamesDoc[calls["local"].name] = NULL
  /\ ~Truthy(usersDoc[user.uid].username)

\* C12: a username reserved for one uid is never given to another uid by a
\* later creation write.
C12_ReservationNeverOverwritten ==
  [][\A n \in LowerNames :
       usernamesDoc[n] # NULL => usernamesDoc'[n] = usernamesDoc[n]]_vars

\* C13: when the creation's write completes, the user that gets the username
\* is the one that started the call; after a sign-out or a change of identity
\* the completion changes no user.
C13_LateCompletionDiscarded ==
  [][(CreateUsernameCommit("local") /\ user' # user) => user.uid = calls["local"].uid]_vars

\* C14: every keystroke cancels the pending timer, so that the lookup that
\* starts when the timer fires is for the text of the last keystroke.
C14_LookupForLastKeystroke ==
  [][/\ \A text \in FieldTexts :
          handleUsernameChange(text) => timer' \in {NULL, FormatUsername(text)}
     /\ TimerFire => timer = displayName]_vars

\* C15: a lookup whose name is no longer the text of the field changes
\* neither the username error nor the checking indicator when it settles.
C15_StaleLookupIgnored ==
  [][\A i \in 1..Len(lookups), failed \in BOOLEAN :
       (LookupDeliver(i, failed) /\ lookups[i] # displayName)
         => (usernameError' = usernameError
               /\ isCheckingUsername' = isCheckingUsername)]_vars

\* C17: a lookup whose get() failed leaves a warning in the username error:
\* neither the empty error of an available name nor the taken message.
C17_FailedLookupWarns ==
  [][\A i \in 1..Len(lookups) :
       LookupDeliver(i, TRUE) => usernameError' \notin {"", TakenMessage}]_vars

\* C16: when the lookup of the submit's final check fails, the submit ends
\* there with an alert on screen and never enters the creation function.
C16_SubmitLookupErrorFatal ==
  [][SubmitPrecheck("local", TRUE)
      => (calls'["local"].pc = "idle" /\ calls'["local"].result # "true"
            /\ alert' # NULL)]_vars

\* C18: a sign-in that ends with a cancellation or an in-progress condition
\* leaves user as it was, ends loading and raises no alert.
C18_CancelledSignInSilent ==
  [][\A cause \in {"cancelled", "in_progress"} :
       SignInFail(cause) => (user' = user /\ ~loading' /\ alert' = NULL)]_vars

\* C19: while the alert of a failed sign-in is on screen and the sign-in
\* function has returned, the session is signed_out.
C19_SignInErrorLeavesSignedOut ==
  (alert = SignInErrorTitle /\ signIn.pc = "idle")
    => SessionOf(user, loading) = "signed_out"

\* the transitions of the design's state machine; created: the step is the
\* completion of a profile creation, signedOut: the step is a sign-out
SessionTransition(from, to, created, signedOut) ==
  \/ from = "signed_out" /\ to = "loading"
  \/ from = "loading"
       /\ to \in {"signed_in_incomplete", "signed_in_complete", "signed_out"}
  \/ from = "signed_in_incomplete" /\ to = "signed_in_complete" /\ created
  \/ from = "signed_in_incomplete" /\ to = "signed_out" /\ signedOut
  \/ from = "signed_in_complete" /\ to = "signed_out" /\ signedOut

\* C20: every change of the session within one run of the app is a
\* transition of the state machine.
C20_OnlySpecifiedTransitions ==
  [][(~Restart /\ SessionOf(user', loading') # SessionOf(user, loading))
      => SessionTransition(SessionOf(user, loading), SessionOf(user', loading'),
                           CreateUsernameCommit("local"), SignOut)]_vars

C22_ReturningUserGoesHome ==
  (user # NoUser /\ ProfileComplete(usersDoc[user.uid]))
    => /\ SessionOf(user, loading) # "signed_in_incomplete"
       /\ segments # ProfileCreation

\* C23: in the first sign-in flow the session eventually is
\* signed_in_complete on the home route and stays so.
C23_FirstTimeFlowCompletes ==
  <>[](SessionOf(user, loading) = "signed_in_complete" /\ segments = Home)

\* C24: a null identity event - the first event of a signed-out app, or the
\* one of a successful sign-out - publishes user = null with loading over; a
\* sign-out whose request fails raises an alert and changes neither the
\* identity, user nor loading.
C24_NullEventClearsUser ==
  [][/\ (SignOut \/ (AuthInit /\ authUser = NULL)) => (user' = NoUser /\ ~loading')
     /\ SignOutFail => /\ alert' = ErrorTitle
                       /\ authUser' = authUser
                       /\ user' = user
                       /\ loading' = loading]_vars

\* C24 witness: a user with a stored username was signed in, a sign-out has
\* failed with its alert and a later one has gone through: nobody is signed
\* in and user is null.
C24_Witness ==
  /\ alert = ErrorTitle
  /\ calls["local"].result = NULL
  /\ \E u \in accounts : Truthy(usersDoc[u].username)
  /\ authUser = NULL
  /\ user = NoUser
  /\ ~loading

\* C25: every users document of the store is either absent or has both the
\* username and the avatar.
C25_StoredProfileAbsentOrComplete ==
  \A u \in Uids : ~usersDoc[u].exists \/ ProfileComplete(usersDoc[u])

\* C26: for every session value and starting route the effects come to rest:
\* from some point on no effect is pending and neither the guard nor the
\* mounted screen's effect decides a redirect.
C26_EffectsReachFixedPoint ==
  <>[](/\ ~screenDirty
       /\ ~guardDirty
       /\ AuthNavigationProvider(user, loading, navKey, segments) = NoNav
       /\ ScreenEffect(segments, user, loading) = NoNav)

\* C26 witness: a user with a username and no avatar started on the login
\* route; the login screen's replace by home and the guard's replace by
\* profile-creation were issued in one commit and the effects are at rest on
\* the profile-creation route.
C26_Witness ==
  /\ user # NoUser
  /\ Truthy(user.username)
  /\ ~HasProfile(user)
  /\ ~loading
  /\ redirects = 2
  /\ segments = ProfileCreation
  /\ ~screenDirty
  /\ ~guardDirty

\* C27: whenever loading is false, no profile fetch of the latest non-null
\* identity event is still in flight.
C27_NoFetchInFlightWhenLoaded ==
  (~loading /\ authUser # NULL)
    => \A i \in 1..Len(fetches) : fetches[i] # authUser

\* C28: every users document with a username has the reservation of its
\* lowercase username in its own uid, and no two users documents have the
\* same lowercase username.
C28_ReservationMatchesProfile ==
  /\ \A u \in Uids : Truthy(usersDoc[u].username)
        => usernamesDoc[toLowerCase(usersDoc[u].username)] = u
  /\ \A u, v \in Uids :
        (/\ u # v
         /\ Truthy(usersDoc[u].username)
         /\ Truthy(usersDoc[v].username))
        => toLowerCase(usersDoc[u].username) # toLowerCase(usersDoc[v].username)

C30_TooShortKeepsError ==
  (Len(displayName) > 0 /\ Len(displayName) < MinUsernameLength)
    => /\ usernameError = TooShortMessage
       /\ timer = NULL
       /\ lookups = <<>>

====
